---- MODULE Spec2Model ----
(***************************************************************************)
(* Model of goldenverba/components/generation/OpenAIGenerator.py:          *)
(* the OpenAIGenerator adapter (construction, model discovery, prompt      *)
(* assembly and the streaming decode loop of generate_stream).             *)
(***************************************************************************)
EXTENDS Integers, Sequences, FiniteSets, TLC

VARIABLES
    environ,    \* os.environ: OPENAI_API_KEY, OPENAI_BASE_URL, OPENAI_MODEL (None = unset)
    pc,         \* position of the generate_stream generator
    conn,       \* the httpx streaming connection: "none", "open", "released"
    status,     \* HTTP status of the streaming response (0 before a response)
    body,       \* lines of the streaming response body, as aiter_lines() delivers them
    pos,        \* number of lines of body the loop has consumed
    chunks,     \* the chunks yielded so far, in order
    origin,     \* origin[k] = index of the line of body that chunks[k] was decoded from
    error,      \* the exception that ended generate_stream (None = none)
    config,     \* the config argument of the generate_stream call (empty before the call)
    requests,   \* the requests sent with client.stream
    ctor,       \* OpenAIGenerator(): "new", "constructed" or "raised"
    ctorError,  \* the exception that left __init__ (None = none)
    selfConfig, \* self.config, option name -> InputConfig
    models,     \* the list get_models returned to __init__ (empty before the call)
    getCalls,   \* the URLs get_models requested with requests.get
    lmResponse, \* what the provider answered to that request
    pmArgs,     \* the arguments of a prepare_messages call
    pmResult    \* the list prepare_messages returned (empty before the call)

streamVars == <<pc, conn, status, body, pos, chunks, origin, error, config, requests>>
ctorVars == <<ctor, ctorError, selfConfig, models, getCalls, lmResponse>>
prepVars == <<pmArgs, pmResult>>
vars == <<environ, streamVars, ctorVars, prepVars>>

None == "None"      \* Python None / JSON null

\* ---- bounds ----
MaxLines == 3       \* longest response body, in lines
MaxTurns == 2       \* longest conversation passed to prepare_messages
MaxModels == 3      \* longest model list in a /models response

\* ---------------------------------------------------------------------------
\* Python str operations used by the source
\* ---------------------------------------------------------------------------
startswith(s, p) == Len(s) >= Len(p) /\ SubSeq(s, 1, Len(p)) = p

IsSpace(c) == c \in {" ", "\t"}

RECURSIVE lstrip(_)
lstrip(s) ==
    IF Len(s) > 0 /\ IsSpace(SubSeq(s, 1, 1)) THEN lstrip(SubSeq(s, 2, Len(s))) ELSE s

RECURSIVE rstrip(_)
rstrip(s) ==
    IF Len(s) > 0 /\ IsSpace(SubSeq(s, Len(s), Len(s)))
    THEN rstrip(SubSeq(s, 1, Len(s) - 1)) ELSE s

strip(s) == rstrip(lstrip(s))

\* sub in s
contains(s, sub) ==
    \E i \in 1..(Len(s) - Len(sub) + 1) : SubSeq(s, i, i + Len(sub) - 1) = sub

\* ---------------------------------------------------------------------------
\* JSON values and json.loads on the payloads of the modelled response lines
\* ---------------------------------------------------------------------------
JNull == [t |-> "null"]
JStr(s) == [t |-> "string", s |-> s]
JArr(a) == [t |-> "array", a |-> a]
JObj(f) == [t |-> "object", f |-> f]
JSONDecodeError == [t |-> "JSONDecodeError"]

json_loads(s) ==
    CASE s = "{\"choices\":[{\"delta\":{\"content\":\"Hi\"}}]}" ->
            JObj([choices |-> JArr(<<JObj([delta |-> JObj([content |-> JStr("Hi")])])>>)])
      [] s = "{\"choices\":[{\"delta\":{\"content\":\"!\"},\"finish_reason\":\"stop\"}]}" ->
            JObj([choices |-> JArr(<<JObj([delta |-> JObj([content |-> JStr("!")]),
                                           finish_reason |-> JStr("stop")])>>)])
      [] s = "{\"choices\":[{\"delta\":{},\"finish_reason\":\"length\"}]}" ->
            JObj([choices |-> JArr(<<JObj([delta |-> JObj(<<>>),
                                           finish_reason |-> JStr("length")])>>)])
      [] s = "{\"choices\":[{\"finish_reason\":\"stop\"}]}" ->
            JObj([choices |-> JArr(<<JObj([finish_reason |-> JStr("stop")])>>)])
      [] s = "{\"choices\":[{\"delta\":{\"role\":\"assistant\"}}]}" ->
            JObj([choices |-> JArr(<<JObj([delta |-> JObj([role |-> JStr("assistant")])])>>)])
      [] s = "{\"choices\":[]}" ->
            JObj([choices |-> JArr(<<>>)])
      [] s = "{\"error\":{\"message\":\"bad key\"}}" ->
            JObj([error |-> JObj([message |-> JStr("bad key")])])
      [] OTHER -> JSONDecodeError

\* a JSON string or null as the Python value the source puts in a chunk
PyValue(v) == IF v.t = "string" THEN v.s ELSE None

\* ---------------------------------------------------------------------------
\* generate_stream: the decode of one line of the response (the loop body)
\* ---------------------------------------------------------------------------
Skip == [kind |-> "skip"]
Break == [kind |-> "break"]
Yield(m, f) == [kind |-> "yield", chunk |-> [message |-> m, finish_reason |-> f]]
Raise(e) == [kind |-> "raise", err |-> e]

\* choice = json_line["choices"][0], with the exceptions Python raises on the way
Choice0(json_line) ==
    IF json_line.t # "object" THEN Raise("TypeError")
    ELSE IF "choices" \notin DOMAIN json_line.f THEN Raise("KeyError")
    ELSE LET choices == json_line.f["choices"] IN
         IF choices.t # "array" THEN Raise("TypeError")
         ELSE IF Len(choices.a) = 0 THEN Raise("IndexError")
         ELSE [kind |-> "ok", choice |-> choices.a[1]]

DecodeChoice(choice) ==
    IF choice.t # "object" THEN Raise("TypeError")
    ELSE IF "delta" \in DOMAIN choice.f /\ choice.f["delta"].t # "object"
         THEN Raise("TypeError")
    ELSE IF "delta" \in DOMAIN choice.f /\ "content" \in DOMAIN choice.f["delta"].f
         THEN Yield(PyValue(choice.f["delta"].f["content"]),
                    IF "finish_reason" \in DOMAIN choice.f
                    THEN PyValue(choice.f["finish_reason"]) ELSE None)
    ELSE IF "finish_reason" \in DOMAIN choice.f
         THEN Yield("", PyValue(choice.f["finish_reason"]))
    ELSE Skip

\* variant: the sentinel is skipped like a keep-alive line instead of ending the loop
DecodeLine_continue(line) ==
    IF ~startswith(line, "data: ") THEN Skip
    ELSE IF strip(line) = "data: [DONE]" THEN Skip
    ELSE LET json_line == json_loads(SubSeq(line, 7, Len(line))) IN
         IF json_line.t = "JSONDecodeError" THEN Raise("JSONDecodeError")
         ELSE LET c == Choice0(json_line) IN
              IF c.kind = "raise" THEN c ELSE DecodeChoice(c.choice)

DecodeLine(line) ==
    IF ~startswith(line, "data: ") THEN Skip
    ELSE IF strip(line) = "data: [DONE]" THEN Break
    ELSE LET json_line == json_loads(SubSeq(line, 7, Len(line))) IN
         IF json_line.t = "JSONDecodeError" THEN Raise("JSONDecodeError")
         ELSE LET c == Choice0(json_line) IN
              IF c.kind = "raise" THEN c ELSE DecodeChoice(c.choice)

\* ---------------------------------------------------------------------------
\* prepare_messages
\* ---------------------------------------------------------------------------
RECURSIVE AppendTurns(_, _)
AppendTurns(messages, conversation) ==
    IF conversation = <<>> THEN messages
    ELSE AppendTurns(Append(messages, [role |-> Head(conversation).type,
                                       content |-> Head(conversation).content]),
                     Tail(conversation))

RECURSIVE InsertTurns(_, _)
InsertTurns(messages, conversation) ==
    IF conversation = <<>> THEN messages
    ELSE InsertTurns(<<Head(messages)>>
                     \o <<[role |-> Head(conversation).type,
                           content |-> Head(conversation).content]>>
                     \o Tail(messages),
                     Tail(conversation))

\* variant: each turn is inserted right after the system message
prepare_messages_insert(query, context, conversation, system_message) ==
    Append(InsertTurns(<<[role |-> "system", content |-> system_message]>>, conversation),
           [role |-> "user",
            content |-> "Answer this query: '" \o query
                        \o "' with this provided context: " \o context])

prepare_messages(query, context, conversation, system_message) ==
    Append(AppendTurns(<<[role |-> "system", content |-> system_message]>>, conversation),
           [role |-> "user",
            content |-> "Answer this query: '" \o query
                        \o "' with this provided context: " \o context])

\* ---------------------------------------------------------------------------
\* goldenverba.components.util.get_environment (not part of this file):
\* the configuration entry if there is one, else the ambient value, else an
\* error carrying error_msg
\* ---------------------------------------------------------------------------
get_environment(cfg, value, env, error_msg) ==
    IF value \in DOMAIN cfg THEN [ok |-> TRUE, v |-> cfg[value]]
    ELSE IF environ[env] # None THEN [ok |-> TRUE, v |-> environ[env]]
    ELSE [ok |-> FALSE, msg |-> error_msg]

\* ---------------------------------------------------------------------------
\* inputs
\* ---------------------------------------------------------------------------
DoneLine == "data: [DONE]"

LineSet == {
    "data: {\"choices\":[{\"delta\":{\"content\":\"Hi\"}}]}",
    "data: {\"choices\":[{\"delta\":{\"content\":\"!\"},\"finish_reason\":\"stop\"}]}",
    "data: {\"choices\":[{\"delta\":{},\"finish_reason\":\"length\"}]}",
    "data: {\"choices\":[{\"finish_reason\":\"stop\"}]}",
    "data: {\"choices\":[{\"delta\":{\"role\":\"assistant\"}}]}",
    "data: {\"choices\":[]}",
    "data: {\"error\":{\"message\":\"bad key\"}}",
    "data: {\"choices\":[{\"delta\"",
    DoneLine,
    "data: [DONE] ",
    ": keep-alive",
    "{\"error\":{\"message\":\"bad key\"}}" }

SeqsUpTo(S, n) == UNION {[1..k -> S] : k \in 0..n}

Bodies == SeqsUpTo(LineSet, MaxLines)

Statuses == {200, 401}

ConfigNames == {"System Message", "Model", "API Key", "URL"}

ConfigValue(name) ==
    CASE name = "System Message" -> "Be brief."
      [] name = "Model" -> "gpt-4o"
      [] name = "API Key" -> "sk-config"
      [] name = "URL" -> "https://config.example/v1"

Configs == {[name \in S |-> ConfigValue(name)] : S \in SUBSET ConfigNames}

Turns == {[type |-> "user", content |-> "hello"],
          [type |-> "assistant", content |-> "hi, how can I help?"],
          [type |-> "system", content |-> ""],
          [type |-> "user", content |-> "it's broken"]}

Conversations == SeqsUpTo(Turns, MaxTurns)

\* ---------------------------------------------------------------------------
\* generate_stream as a generator driven by its consumer
\* ---------------------------------------------------------------------------
Ended == {"done", "failed", "abandoned", "closed"}

\* an exception leaves generate_stream; the async with blocks release the
\* connection if one is open
RaiseOut(e) ==
    /\ pc' = "failed"
    /\ error' = e
    /\ conn' = IF conn = "open" THEN "released" ELSE conn

\* variant: the lookups of lines 82-89 run inside the async with blocks
RaiseBeforeConnect_inside(e) ==
    /\ pc' = "failed"
    /\ error' = e
    /\ conn' = "released"
    /\ UNCHANGED <<status, body, requests>>

\* an exception of lines 82-89 leaves generate_stream before client.stream
RaiseBeforeConnect(e) ==
    /\ RaiseOut(e)
    /\ UNCHANGED <<status, body, requests>>

\* first pull: lines 82-112, up to the response headers
generate_stream_open ==
    /\ pc = "idle"
    /\ \E cfg \in Configs :
        /\ config' = cfg
        /\ IF "System Message" \notin DOMAIN cfg \/ "Model" \notin DOMAIN cfg
           THEN RaiseBeforeConnect("AttributeError")
           ELSE LET openai_key == get_environment(cfg, "API Key", "OPENAI_API_KEY",
                                                  "No OpenAI API Key found")
                    openai_url == get_environment(cfg, "URL", "OPENAI_BASE_URL",
                                                  "https://api.openai.com/v1")
                IN  IF ~openai_key.ok
                    THEN RaiseBeforeConnect(openai_key.msg)
                    ELSE IF ~openai_url.ok
                    THEN RaiseBeforeConnect(openai_url.msg)
                    ELSE /\ requests' = Append(requests,
                               [url |-> openai_url.v \o "/chat/completions",
                                Authorization |-> "Bearer " \o openai_key.v,
                                model |-> cfg["Model"],
                                messages |-> prepare_messages("q", "ctx", <<>>,
                                                              cfg["System Message"])])
                         /\ \/ /\ RaiseOut("ConnectError")
                               /\ UNCHANGED <<status, body>>
                            \/ \E st \in Statuses, b \in Bodies :
                                 /\ conn' = "open"
                                 /\ status' = st
                                 /\ body' = b
                                 /\ pc' = "reading"
                                 /\ error' = error
    /\ UNCHANGED <<environ, pos, chunks, origin, ctorVars, prepVars>>

\* a pull while the response is open: the loop takes the next line
generate_stream_line ==
    /\ pc \in {"reading", "yielded"}
    /\ pos < Len(body)
    /\ pos' = pos + 1
    /\ LET d == DecodeLine(body[pos + 1]) IN
        CASE d.kind = "skip" ->
               /\ pc' = "reading"
               /\ UNCHANGED <<conn, chunks, origin, error>>
          [] d.kind = "break" ->
               /\ pc' = "done"
               /\ conn' = "released"
               /\ UNCHANGED <<chunks, origin, error>>
          [] d.kind = "yield" ->
               /\ pc' = "yielded"
               /\ chunks' = Append(chunks, d.chunk)
               /\ origin' = Append(origin, pos + 1)
               /\ UNCHANGED <<conn, error>>
          [] d.kind = "raise" ->
               /\ RaiseOut(d.err)
               /\ UNCHANGED <<chunks, origin>>
    /\ UNCHANGED <<environ, status, body, config, requests, ctorVars, prepVars>>

\* a pull when aiter_lines() is exhausted: the loop and both async with blocks end
generate_stream_eof ==
    /\ pc \in {"reading", "yielded"}
    /\ pos = Len(body)
    /\ pc' = "done"
    /\ conn' = "released"
    /\ UNCHANGED <<environ, status, body, pos, chunks, origin, error, config, requests, ctorVars, prepVars>>

\* the read of the next line fails (httpx.ReadError)
generate_stream_read_error ==
    /\ pc \in {"reading", "yielded"}
    /\ pos < Len(body)
    /\ RaiseOut("ReadError")
    /\ UNCHANGED <<environ, status, body, pos, chunks, origin, config, requests, ctorVars, prepVars>>

\* the consumer stops iterating after a chunk and drops the generator
consumer_stop ==
    /\ pc = "yielded"
    /\ pc' = "abandoned"
    /\ UNCHANGED <<environ, conn, status, body, pos, chunks, origin, error, config, requests, ctorVars, prepVars>>

\* variant: the response is not closed when the generator is finalized
generate_stream_aclose_leak ==
    /\ pc = "abandoned"
    /\ pc' = "closed"
    /\ UNCHANGED <<environ, conn, status, body, pos, chunks, origin, error, config, requests, ctorVars, prepVars>>

\* the event loop finalizes the dropped generator (aclose): GeneratorExit is
\* raised at the yield and the async with blocks exit
generate_stream_aclose ==
    /\ pc = "abandoned"
    /\ pc' = "closed"
    /\ conn' = "released"
    /\ UNCHANGED <<environ, status, body, pos, chunks, origin, error, config, requests, ctorVars, prepVars>>


\* ---------------------------------------------------------------------------
\* get_models
\* ---------------------------------------------------------------------------
default_models == <<"gpt-4o", "gpt-3.5-turbo">>

Returned(ids, reqs) == [raised |-> None, models |-> ids, requests |-> reqs]
Raised(e, reqs) == [raised |-> e, models |-> <<>>, requests |-> reqs]

\* variant: the filter keeps the embedding models
RECURSIVE ModelIds_embedding(_)
ModelIds_embedding(data) ==
    IF Len(data) = 0 THEN [raised |-> None, ids |-> <<>>]
    ELSE LET model == Head(data) IN
         IF model.t # "object" THEN [raised |-> "TypeError", ids |-> <<>>]
         ELSE IF "id" \notin DOMAIN model.f THEN [raised |-> "KeyError", ids |-> <<>>]
         ELSE IF model.f["id"].t # "string" THEN [raised |-> "TypeError", ids |-> <<>>]
         ELSE LET rest == ModelIds_embedding(Tail(data)) IN
              IF rest.raised # None THEN rest
              ELSE IF contains(model.f["id"].s, "embedding")
                   THEN [raised |-> None, ids |-> <<model.f["id"].s>> \o rest.ids]
                   ELSE rest

\* [model["id"] for model in data if not "embedding" in model["id"]]
RECURSIVE ModelIds(_)
ModelIds(data) ==
    IF Len(data) = 0 THEN [raised |-> None, ids |-> <<>>]
    ELSE LET model == Head(data) IN
         IF model.t # "object" THEN [raised |-> "TypeError", ids |-> <<>>]
         ELSE IF "id" \notin DOMAIN model.f THEN [raised |-> "KeyError", ids |-> <<>>]
         ELSE IF model.f["id"].t # "string" THEN [raised |-> "TypeError", ids |-> <<>>]
         ELSE LET rest == ModelIds(Tail(data)) IN
              IF rest.raised # None THEN rest
              ELSE IF ~contains(model.f["id"].s, "embedding")
                   THEN [raised |-> None, ids |-> <<model.f["id"].s>> \o rest.ids]
                   ELSE rest

\* the body of the try block; resp is what the provider answers to the GET
get_models_try(token, url, resp) ==
    IF token = None THEN Returned(default_models, <<>>)
    ELSE LET reqs == <<[url |-> url \o "/models", Authorization |-> "Bearer " \o token]>> IN
         IF resp.kind = "ConnectionError" THEN Raised("ConnectionError", reqs)
         ELSE IF resp.status >= 400 /\ resp.status < 600 THEN Raised("HTTPError", reqs)
         ELSE IF resp.body.t = "JSONDecodeError" THEN Raised("JSONDecodeError", reqs)
         ELSE IF resp.body.t # "object" THEN Raised("TypeError", reqs)
         ELSE IF "data" \notin DOMAIN resp.body.f THEN Raised("KeyError", reqs)
         ELSE IF resp.body.f["data"].t # "array" THEN Raised("TypeError", reqs)
         ELSE LET r == ModelIds(resp.body.f["data"].a) IN
              IF r.raised # None THEN Raised(r.raised, reqs) ELSE Returned(r.ids, reqs)

\* variant: except requests.RequestException
get_models_narrow(token, url, resp) ==
    LET r == get_models_try(token, url, resp) IN
    IF r.raised \in {"ConnectionError", "HTTPError"}
    THEN Returned(default_models, r.requests) ELSE r

\* try ... except Exception: return default_models
get_models(token, url, resp) ==
    LET r == get_models_try(token, url, resp) IN
    IF r.raised # None THEN Returned(default_models, r.requests) ELSE r

\* ---------------------------------------------------------------------------
\* goldenverba.components.util.get_token (not part of this file): the ambient
\* credential, None when there is none; and os.getenv
\* ---------------------------------------------------------------------------
get_token(env) == environ[env]

getenv(name, default) == IF environ[name] # None THEN environ[name] ELSE default

\* ---------------------------------------------------------------------------
\* OpenAIGenerator.__init__
\* ---------------------------------------------------------------------------
InputConfig(type, value, values) == [type |-> type, value |-> value, values |-> values]

SystemMessage ==
    "You are a professional and concise customer support assistant for an online service."

\* variant: the URL entry is added under the condition of the API Key entry
BuildConfig_keyed(default_model, catalog) ==
    LET base == ("Model" :> InputConfig("dropdown", default_model, catalog))
                @@ ("System Message" :> InputConfig("textarea", SystemMessage, <<>>))
        withKey == IF get_token("OPENAI_API_KEY") = None
                   THEN base @@ ("API Key" :> InputConfig("password", "", <<>>))
                   ELSE base
    IN  IF get_token("OPENAI_API_KEY") = None
        THEN withKey @@ ("URL" :> InputConfig("text", "https://api.openai.com/v1", <<>>))
        ELSE withKey

\* lines 30-73: the entries of self.config
BuildConfig(default_model, catalog) ==
    LET base == ("Model" :> InputConfig("dropdown", default_model, catalog))
                @@ ("System Message" :> InputConfig("textarea", SystemMessage, <<>>))
        withKey == IF get_token("OPENAI_API_KEY") = None
                   THEN base @@ ("API Key" :> InputConfig("password", "", <<>>))
                   ELSE base
    IN  IF getenv("OPENAI_BASE_URL", None) = None
        THEN withKey @@ ("URL" :> InputConfig("text", "https://api.openai.com/v1", <<>>))
        ELSE withKey

IdSet == {"gpt-4o", "text-embedding-3", "gpt-3.5-turbo", "o1"}

ModelsBody(ids) == JObj([data |-> JArr([i \in 1..Len(ids) |-> JObj([id |-> JStr(ids[i])])])])

LmBodies ==
    {ModelsBody(ids) : ids \in SeqsUpTo(IdSet, MaxModels)}
    \cup {JSONDecodeError,
          JObj([error |-> JObj([message |-> JStr("bad key")])]),
          JObj([data |-> JArr(<<JObj([id |-> JStr("gpt-4o")]), JObj([id |-> JNull])>>)]),
          JObj([data |-> JArr(<<JObj([object |-> JStr("model")])>>)])}

NoResponse == [kind |-> "none"]

LmResponses ==
    {[kind |-> "ConnectionError"]}
    \cup {[kind |-> "response", status |-> st, body |-> b] : st \in {200, 401, 500}, b \in LmBodies}

OpenAIGenerator_init ==
    /\ ctor = "new"
    /\ \E resp \in LmResponses :
        LET api_key == get_token("OPENAI_API_KEY")
            base_url == getenv("OPENAI_BASE_URL", "https://api.openai.com/v1")
            r == get_models(api_key, base_url, resp)
        IN  /\ getCalls' = r.requests
            /\ lmResponse' = IF r.requests = <<>> THEN NoResponse ELSE resp
            /\ IF r.raised # None
               THEN /\ ctor' = "raised"
                    /\ ctorError' = r.raised
                    /\ UNCHANGED <<models, selfConfig>>
               ELSE /\ models' = r.models
                    /\ IF Len(r.models) = 0
                       THEN \* models[0], evaluated before os.getenv is called
                            /\ ctor' = "raised"
                            /\ ctorError' = "IndexError"
                            /\ UNCHANGED selfConfig
                       ELSE /\ ctor' = "constructed"
                            /\ ctorError' = None
                            /\ selfConfig' =
                                 BuildConfig(getenv("OPENAI_MODEL", r.models[1]), r.models)
    /\ UNCHANGED <<environ, streamVars, prepVars>>

\* ---------------------------------------------------------------------------
\* a call of prepare_messages
\* ---------------------------------------------------------------------------
prepare_messages_call ==
    /\ pmResult = <<>>
    /\ pmResult' = prepare_messages(pmArgs.query, pmArgs.context, pmArgs.conversation,
                                    pmArgs.system_message)
    /\ UNCHANGED <<environ, streamVars, ctorVars, pmArgs>>

\* ---------------------------------------------------------------------------
\* specifications
\* ---------------------------------------------------------------------------
EnvKeys == {None, "sk-env"}
EnvUrls == {None, "https://env.example/v1"}
EnvModels == {None, "gpt-4-turbo"}

NoArgs == [query |-> "", context |-> "", conversation |-> <<>>, system_message |-> ""]

StreamIdle ==
    /\ pc = "idle"
    /\ conn = "none"
    /\ status = 0
    /\ body = <<>>
    /\ pos = 0
    /\ chunks = <<>>
    /\ origin = <<>>
    /\ error = None
    /\ config = <<>>
    /\ requests = <<>>

CtorIdle ==
    /\ ctor = "new"
    /\ ctorError = None
    /\ selfConfig = <<>>
    /\ models = <<>>
    /\ getCalls = <<>>
    /\ lmResponse = NoResponse

PrepIdle ==
    /\ pmArgs = NoArgs
    /\ pmResult = <<>>

\* generate_stream
Init ==
    /\ environ \in [OPENAI_API_KEY : EnvKeys, OPENAI_BASE_URL : EnvUrls, OPENAI_MODEL : {None}]
    /\ StreamIdle
    /\ CtorIdle
    /\ PrepIdle

Next ==
    \/ generate_stream_open
    \/ generate_stream_line
    \/ generate_stream_eof
    \/ generate_stream_read_error
    \/ consumer_stop
    \/ generate_stream_aclose

Spec == Init /\ [][Next]_vars

\* the event loop runs the finalizer of a dropped generator
FairSpec == Spec /\ WF_vars(generate_stream_aclose)

\* construction and model discovery
InitConstruct ==
    /\ environ \in [OPENAI_API_KEY : EnvKeys, OPENAI_BASE_URL : EnvUrls, OPENAI_MODEL : EnvModels]
    /\ StreamIdle
    /\ CtorIdle
    /\ PrepIdle

NextConstruct == OpenAIGenerator_init

SpecConstruct == InitConstruct /\ [][NextConstruct]_vars

\* prepare_messages
InitPrepare ==
    /\ environ = [OPENAI_API_KEY |-> None, OPENAI_BASE_URL |-> None, OPENAI_MODEL |-> None]
    /\ StreamIdle
    /\ CtorIdle
    /\ pmArgs \in [query : {"", "Why?"}, context : {"", "doc 1"},
                   conversation : Conversations, system_message : {"Be brief."}]
    /\ pmResult = <<>>

NextPrepare == prepare_messages_call

SpecPrepare == InitPrepare /\ [][NextPrepare]_vars

\* ---------------------------------------------------------------------------
\* properties
\* ---------------------------------------------------------------------------
Is2xx(st) == st >= 200 /\ st <= 299

\* C1: the first line of the response that is `data: [DONE]` ends the sequence:
\* the loop never goes past it, consuming it ends generate_stream, and no chunk
\* comes from it or from any line after it.
C1_SentinelEndsSequence ==
    \A i \in DOMAIN body :
        (body[i] = DoneLine /\ \A j \in 1..(i - 1) : body[j] # DoneLine) =>
            /\ pos <= i
            /\ \A k \in DOMAIN origin : origin[k] < i
            /\ (pos = i => pc = "done" /\ conn = "released")

C1_Witness ==
    /\ pc = "done"
    /\ pos > 1
    /\ pos < Len(body)
    /\ body[pos] = DoneLine
    /\ chunks # <<>>
    /\ body[pos + 1] = "data: {\"choices\":[{\"delta\":{\"content\":\"Hi\"}}]}"

\* what C2 gives as the chunks of one response line
C2_HasChoice0(obj) ==
    /\ obj.t = "object"
    /\ "choices" \in DOMAIN obj.f
    /\ obj.f["choices"].t = "array"
    /\ Len(obj.f["choices"].a) > 0
    /\ obj.f["choices"].a[1].t = "object"

C2_Has(choice, name) == name \in DOMAIN choice.f

C2_HasContent(choice) ==
    /\ C2_Has(choice, "delta")
    /\ choice.f["delta"].t = "object"
    /\ "content" \in DOMAIN choice.f["delta"].f

C2_Expected(line) ==
    IF ~startswith(line, "data: ") THEN <<>>
    ELSE LET obj == json_loads(SubSeq(line, 7, Len(line))) IN
         IF ~C2_HasChoice0(obj) THEN <<>>
         ELSE LET choice == obj.f["choices"].a[1] IN
              IF C2_HasContent(choice)
              THEN <<[message |-> PyValue(choice.f["delta"].f["content"]),
                      finish_reason |-> IF C2_Has(choice, "finish_reason")
                                        THEN PyValue(choice.f["finish_reason"]) ELSE None]>>
              ELSE IF C2_Has(choice, "finish_reason")
              THEN <<[message |-> "", finish_reason |-> PyValue(choice.f["finish_reason"])]>>
              ELSE <<>>

ChunksOf(j) == [k \in 1..Cardinality({n \in DOMAIN origin : origin[n] = j}) |->
                   chunks[CHOOSE n \in DOMAIN origin : origin[n] = j]]

C2_IsObjectLine(line) ==
    /\ startswith(line, "data: ")
    /\ strip(line) # "data: [DONE]"
    /\ json_loads(SubSeq(line, 7, Len(line))).t = "object"

\* C2: every consumed `data: ` line that carries a JSON object yields the chunk
\* choices[0] determines (content chunk, else finish chunk, else none), the stream
\* then goes on with the next line, chunks come in stream order, and a line not
\* prefixed `data: ` yields no chunk.
C2_EveryObjectDecoded ==
    /\ \A j \in 1..pos :
         (C2_IsObjectLine(body[j]) \/ ~startswith(body[j], "data: ")) =>
             /\ Cardinality({n \in DOMAIN origin : origin[n] = j}) <= 1
             /\ ChunksOf(j) = C2_Expected(body[j])
             /\ ~(pc = "failed" /\ pos = j /\ error \in {"KeyError", "IndexError", "TypeError"})
    /\ \A m, n \in DOMAIN origin : m < n => origin[m] < origin[n]

\* C3: a response with a non-2xx status makes generate_stream fail with an
\* upstream-request error before any line of its body is decoded.
C3_Non2xxAborts ==
    (pc # "idle" /\ status # 0 /\ ~Is2xx(status)) =>
        /\ chunks = <<>>
        /\ pc \in Ended => (pc = "failed" /\ error = "UpstreamRequestError")

NoKeyResolvable ==
    /\ {"System Message", "Model"} \subseteq DOMAIN config
    /\ "API Key" \notin DOMAIN config
    /\ environ["OPENAI_API_KEY"] = None

\* C4: when neither the configuration nor the environment gives an API key,
\* generate_stream fails with the missing-key error, and no connection has been
\* opened, no request sent and no chunk produced.
C4_NoKeyFailsBeforeConnect ==
    (pc # "idle" /\ NoKeyResolvable) =>
        /\ pc = "failed"
        /\ error = "No OpenAI API Key found"
        /\ conn = "none"
        /\ requests = <<>>
        /\ chunks = <<>>

C4_Witness ==
    /\ pc = "failed"
    /\ NoKeyResolvable
    /\ "URL" \in DOMAIN config

\* C5: once the sequence has ended (end of the response or sentinel, an error, or
\* the consumer stopping early) the connection is eventually not open, and it is
\* never open once generate_stream has returned, raised or been closed.
C5_ConnectionReleased ==
    /\ [](pc \in {"done", "failed", "closed"} => conn # "open")
    /\ (pc \in Ended) ~> (conn # "open")

C5_Witness ==
    /\ pc = "closed"
    /\ conn = "released"
    /\ pos < Len(body)
    /\ chunks # <<>>

LmWellFormed(b) ==
    /\ b.t = "object"
    /\ "data" \in DOMAIN b.f
    /\ b.f["data"].t = "array"
    /\ \A i \in DOMAIN b.f["data"].a :
         /\ b.f["data"].a[i].t = "object"
         /\ "id" \in DOMAIN b.f["data"].a[i].f
         /\ b.f["data"].a[i].f["id"].t = "string"

LmFailed(resp) ==
    \/ resp.kind = "ConnectionError"
    \/ /\ resp.kind = "response"
       /\ (~Is2xx(resp.status) \/ ~LmWellFormed(resp.body))

LmSucceeded(resp) ==
    /\ resp.kind = "response"
    /\ Is2xx(resp.status)
    /\ LmWellFormed(resp.body)

C7_PrepareMessagesShape ==
    pmResult # <<>> =>
        LET c == pmArgs.conversation IN
        /\ Len(pmResult) = Len(c) + 2
        /\ pmResult[1] = [role |-> "system", content |-> pmArgs.system_message]
        /\ pmResult[Len(pmResult)] =
             [role |-> "user",
              content |-> "Answer this query: '" \o pmArgs.query
                          \o "' with this provided context: " \o pmArgs.context]
        /\ \A i \in 1..Len(c) :
             pmResult[i + 1] = [role |-> c[i].type, content |-> c[i].content]

C7_Witness ==
    /\ pmResult # <<>>
    /\ Len(pmArgs.conversation) = 2
    /\ pmArgs.conversation[1] # pmArgs.conversation[2]
    /\ pmArgs.query # ""

EmbeddingIds == {"text-embedding-3"}

C9_ConditionalEntries ==
    ctor = "constructed" =>
        /\ ("API Key" \in DOMAIN selfConfig) <=> (environ["OPENAI_API_KEY"] = None)
        /\ ("URL" \in DOMAIN selfConfig) <=> (environ["OPENAI_BASE_URL"] = None)
        /\ {"Model", "System Message"} \subseteq DOMAIN selfConfig
        /\ DOMAIN selfConfig \subseteq ConfigNames

C9_Witness ==
    /\ ctor = "constructed"
    /\ environ["OPENAI_API_KEY"] # None
    /\ environ["OPENAI_BASE_URL"] = None
    /\ "URL" \in DOMAIN selfConfig
    /\ "API Key" \notin DOMAIN selfConfig

\* C10: construction never raises, whatever model discovery gives, and then the
\* `Model` option lists the discovered catalog and is set to the OPENAI_MODEL
\* override if there is one, else to the first entry of the catalog.
C10_ConstructionNeverRaises ==
    ctor # "new" =>
        /\ ctor = "constructed"
        /\ selfConfig["Model"].values = models
        /\ selfConfig["Model"].value =
             (IF environ["OPENAI_MODEL"] # None THEN environ["OPENAI_MODEL"] ELSE models[1])

====
